---- MODULE Spec2Model ----
(***************************************************************************)
(* Model of videodb's HttpClient (src/videodb/_utils/_http_client.py):     *)
(* the verb methods, the request executor _make_request, the transport     *)
(* retry policy mounted in __init__, the envelope interpreter              *)
(* _parse_response, the polling protocol _get_output under                 *)
(* backoff.on_exception, and the error classifier _handle_request_error.   *)
(*                                                                         *)
(* One logical call is a little state machine: idle -> exchange (physical  *)
(* attempts of the HTTP exchange) -> poll (GETs against output_url) ->     *)
(* done (a value returned or an exception raised to the caller).           *)
(***************************************************************************)
EXTENDS Integers, Sequences, FiniteSets, TLC

\* ------------------------------------------------------------------ bounds
\* largest max_retries a client is constructed with
MaxRetries == 3

\* longest video, in seconds
MaxLength == 2

\* callers that use the client
Callers == {1}

\* ------------------------------------------------------- program constants
\* ceiling of the polling protocol: backoff.on_exception(..., max_time=500)
max_time == 500

\* ------------------------------------------------------------ value domains
\* Python's None (a missing key read with dict.get)
None == "<None>"

\* verb methods of the client
Methods == {"GET", "POST", "PUT", "PATCH", "DELETE"}

\* Status.processing / Status.in_progress of videodb._constants
processing == "processing"
in_progress == "in_progress"

\* envelope `status` values the server may send
EnvStatuses == {"done", processing, in_progress, None}

\* envelope `request_type` values the server may send
RequestTypes == {"sync", "async", None}

\* the pending-job pointer: data = {"output_url": U}
Job == "job:U"

\* envelope `data` values: missing, a final payload, or a pending-job pointer
InitialDatas == {None, "D1", Job}

\* data.get("output_url")
output_url(data) == IF data = Job THEN "U" ELSE None

\* HTTP status codes the server may answer with
StatusCodes == {200, 300, 401, 404, 503}

\* HttpClientDefaultValues.status_forcelist
status_forcelist == {502, 503, 504}

\* urllib3 Retry.DEFAULT_ALLOWED_METHODS restricted to the client's verbs:
\* Retry(...) is built without allowed_methods, so only these are retried
\* on a status of status_forcelist
allowed_methods == {"GET", "PUT", "DELETE"}

\* the `response` key of a polled envelope: missing, or a nested envelope
NoNested == [kind |-> "none"]
Nested(s, m, d) == [kind |-> "object", success |-> s, message |-> m, data |-> d]

\* a JSON object body (an envelope)
Envelope(st, rt, s, m, d, r) ==
    [kind |-> "object", status |-> st, request_type |-> rt, success |-> s,
     message |-> m, data |-> d, response |-> r]

\* a body that is not JSON (response.json() raises ValueError)
TextBody == [kind |-> "text"]

\* a body that is valid JSON but not an object (a list has no .get)
ArrayBody == [kind |-> "array"]

\* bodies of the initial response: not JSON, not an object, direct
\* envelopes, background jobs, and jobs to be polled
InitialBodies ==
    {TextBody, ArrayBody} \cup
    {Envelope(st, rt, s, m, d, NoNested) :
        st \in EnvStatuses \ {processing}, rt \in RequestTypes, s \in BOOLEAN,
        m \in {None, "m1"}, d \in InitialDatas} \cup
    {Envelope(processing, "async", s, m, d, NoNested) :
        s \in BOOLEAN, m \in {None, "m1"}, d \in InitialDatas} \cup
    {Envelope(processing, rt, sm[1], sm[2], d, NoNested) :
        rt \in {"sync", None}, sm \in {<<TRUE, None>>, <<FALSE, "m1">>},
        d \in InitialDatas}

\* response.text
Text(body) == IF body.kind = "text" THEN "raw-text" ELSE "raw-json"

\* str(x) inside an f-string
Str(x) == IF x = None THEN "None" ELSE x

\* no response object
NoResponse == [status_code |-> 0, body |-> [kind |-> "none"]]

\* what a finished call gave its caller
NoOutcome == [kind |-> "none", cls |-> "-", msg |-> <<>>, value |-> "-"]
Return(v) == [kind |-> "return", cls |-> "-", msg |-> <<>>, value |-> v]
Raise(c, m) == [kind |-> "raise", cls |-> c, msg |-> m, value |-> "-"]

\* ------------------------------------------- values of the collaborators
\* a JSON null / Python None held as a value (a key that is present)
PyNone == [kind |-> "none"]

\* no value at all
Nothing == [kind |-> "nothing"]

\* what a collaborator's call gives: a value, or an exception of class cls
Returned(v) == [kind |-> "return", cls |-> "-", text |-> "-", value |-> v]
Raised(cls, text) == [kind |-> "raise", cls |-> cls, text |-> text, value |-> Nothing]
NoResult == [kind |-> "none", cls |-> "-", text |-> "-", value |-> Nothing]

\* the typed errors _connection.get / _connection.post raise
ConnectionRaises ==
    {Raised("AuthenticationError", "Error: m1"),
     Raised("InvalidRequestError", "Invalid request: m1")}

\* upload() has not been called.  file_path, url are the arguments (url is
\* reassigned after the file upload, url_arg keeps what the caller passed),
\* upload_url, upload_data are locals; requests lists the network requests
\* issued so far, file tells what open(file_path) found, file_status is
\* the status the storage answered the file upload with
NoUpload ==
    [pc |-> "idle", file_path |-> None, url |-> None, url_arg |-> None,
     upload_url |-> None, file |-> "unopened", file_status |-> 0,
     upload_data |-> Nothing, requests |-> <<>>, outcome |-> NoResult]

\* no Video object has been constructed.  transcript, transcript_text,
\* scenes, length are the object's attributes; op, force, timestamp, other
\* are the method called and its arguments, cached and scenes_before are
\* self.transcript and self.scenes as the method found them, requests lists
\* what the method sent through _connection; deleted tells that
\* delete_scene_index went through and get_scenes was not called since,
\* after_delete that the get_scenes in progress is the first one since
NoVideo ==
    [pc |-> "none", transcript |-> None, transcript_text |-> None,
     op |-> "-", force |-> FALSE, cached |-> None, requests |-> <<>>,
     outcome |-> NoResult,
     scenes |-> PyNone, length |-> 0, scenes_before |-> PyNone,
     deleted |-> FALSE, after_delete |-> FALSE,
     timestamp |-> 0, other |-> [id |-> "-", length |-> 0]]

VARIABLES
    max_retries,      \* Retry(total=max_retries) of the mounted adapter
    session_headers,  \* self.session.headers
    base_url,         \* self.base_url
    call,             \* per caller: the state of its call in progress
    up,               \* the invocation of upload() in progress
    video             \* the Video object and its method call in progress

vars == <<max_retries, session_headers, base_url, call, up, video>>

\* the headers __init__ installs
DefaultHeaders ==
    [h \in {"x-access-token", "Content-Type"} |->
        IF h = "x-access-token" THEN "api_key" ELSE "application/json"]

\* no per-call headers: headers=None, or {}
NoHeaders == <<>>

\* names of the headers a caller may pass with one call: the two defaults
\* and one more
HeaderNames == {"x-access-token", "Content-Type", "X-Request-Id"}

\* the value a caller passes for a header
CallValue(h) ==
    IF h = "x-access-token" THEN "call_key"
    ELSE IF h = "Content-Type" THEN "text/plain"
    ELSE "r1"

\* the `headers` argument of a verb method
CallHeaders == {[h \in N |-> CallValue(h)] : N \in SUBSET HeaderNames}

\* the `base_url` argument of a verb method
BaseUrls == {None, "https://other"}

\* the merge written the other way round: the session's value wins
merge_session_wins(session, headers) ==
    [h \in DOMAIN session \cup DOMAIN headers |->
        IF h \in DOMAIN session THEN session[h] ELSE headers[h]]

\* {**self.session.headers, **(headers or {})}: the later entry wins
merge(session, headers) ==
    [h \in DOMAIN session \cup DOMAIN headers |->
        IF h \in DOMAIN headers THEN headers[h] ELSE session[h]]

\* a request that writes its headers into the session
\* (self.session.headers.update(headers))
SessionAfterRequest_Update(session, headers) == merge(session, headers)

\* self.session.headers after _make_request: the merge builds a new dict
\* and the session's own headers are only read
SessionAfterRequest(session, headers) == session

\* a caller that is not inside a call.  pc is the caller's position; method,
\* headers are arguments and request_url, request_headers,
\* response, url are locals of _make_request / _parse_response; now and n
\* are the clock and the wait index of backoff's retry loop; attempts counts
\* the physical attempts of the exchange, last is the server's answer to the
\* latest of them, statusOnly tells that every attempt so far was answered
\* with a status (none failed in the transport); polls counts the
\* GETs sent to output_url, allPending tells that each of them was answered
\* with a pending envelope, polled is the terminal polled response.
IdleCall ==
    [pc |-> "idle", method |-> "-", attempts |-> 0, last |-> NoResponse,
     statusOnly |-> TRUE, response |-> NoResponse, url |-> None, now |-> 0,
     n |-> 0, polls |-> 0, allPending |-> TRUE,
     polled |-> NoResponse, outcome |-> NoOutcome,
     headers |-> NoHeaders, request_url |-> None, request_headers |-> NoHeaders]

Init ==
    /\ max_retries \in 0..MaxRetries
    /\ session_headers = DefaultHeaders
    /\ base_url = "https://api"
    /\ call = [c \in Callers |-> IdleCall]
    /\ up = NoUpload
    /\ video = NoVideo

\* a lock around the backoff loop: a caller waits while another one polls
Waiters_GlobalLock(c) == {o \in DOMAIN call \ {c} : call[o].pc = "poll"}

\* the callers whose polling caller c has to sit out before its own call
\* moves: none, since backoff sleeps on the calling thread (time.sleep) and
\* neither HttpClient nor the decorator takes a lock
Waiters(c) == {}

\* get / post / put / delete / patch: enter _make_request
Call(c, m, headers, base) ==
    /\ call[c].pc = "idle"
    /\ Waiters(c) = {}
    /\ call' = [call EXCEPT ![c] =
          [IdleCall EXCEPT !.pc = "exchange", !.method = m, !.headers = headers,
              !.request_url = IF base = None THEN base_url ELSE base,
              !.request_headers = merge(session_headers, headers)]]
    /\ session_headers' = SessionAfterRequest(session_headers, headers)
    /\ UNCHANGED <<max_retries, base_url, up, video>>

\* a raise_for_status that lets every status pass
raise_for_status_never(status_code) == FALSE

\* response.raise_for_status(): HTTPError for 400 <= status_code < 600
raise_for_status(status_code) == status_code >= 400 /\ status_code < 600

\* urllib3 Retry.is_retry: a status of status_forcelist is retried only for
\* a method of allowed_methods
is_retry(method, status_code) ==
    method \in allowed_methods /\ status_code \in status_forcelist

\* is_exhausted giving up one retry early (<= for <)
is_exhausted_early(total, k) == total - k <= 0

\* is_exhausted allowing one retry too many
is_exhausted_late(total, k) == total - k < -1

\* Retry.increment / is_exhausted: the k-th failed attempt leaves
\* total = max_retries - k, and the exchange gives up when that is negative
is_exhausted(total, k) == total - k < 0

\* transport failures requests raises that are not HTTPError
TransportErrors == {"RetryError", "Timeout", "ConnectionError", "RequestException"}

\* error_message that never reads the body's message
error_message_default(body) ==
    IF body.kind = "text" THEN Text(body) ELSE "Unknown error"

\* e.response.json().get("message", "Unknown error"), or e.response.text
\* when the body is not JSON
error_message(body) ==
    IF body.kind = "text" THEN Text(body)
    ELSE IF body.message = None THEN "Unknown error" ELSE body.message

\* _handle_request_error that never parses the body: always e.response.text
_handle_request_error_text(e, response) ==
    IF e = "HTTPError" THEN
        IF response.status_code = 401
        THEN Raise("AuthenticationError", <<"Error: ", Text(response.body)>>)
        ELSE Raise("InvalidRequestError", <<"Invalid request: ", Text(response.body)>>)
    ELSE IF e = "RetryError"
    THEN Raise("InvalidRequestError", <<"Invalid request: ", "Max retries exceeded">>)
    ELSE IF e = "Timeout"
    THEN Raise("InvalidRequestError", <<"Invalid request: ", "Request timed out">>)
    ELSE IF e = "ConnectionError"
    THEN Raise("InvalidRequestError", <<"Invalid request: ", "Connection error">>)
    ELSE Raise("InvalidRequestError", <<"Invalid request: ", "str(e)">>)

\* _handle_request_error(e): the typed error raised for a RequestException
_handle_request_error(e, response) ==
    IF e = "HTTPError" THEN
        IF response.body.kind = "array"
        THEN Raise("AttributeError", <<"'list' object has no attribute 'get'">>)
        ELSE IF response.status_code = 401
        THEN Raise("AuthenticationError",
                   <<"Error: ", Str(error_message(response.body))>>)
        ELSE Raise("InvalidRequestError",
                   <<"Invalid request: ", Str(error_message(response.body))>>)
    ELSE IF e = "RetryError"
    THEN Raise("InvalidRequestError", <<"Invalid request: ", "Max retries exceeded">>)
    ELSE IF e = "Timeout"
    THEN Raise("InvalidRequestError", <<"Invalid request: ", "Request timed out">>)
    ELSE IF e = "ConnectionError"
    THEN Raise("InvalidRequestError", <<"Invalid request: ", "Connection error">>)
    ELSE Raise("InvalidRequestError", <<"Invalid request: ", "str(e)">>)

\* response_json.get("request_type", "sync")
request_type_of(body) ==
    IF body.request_type = None THEN "sync" ELSE body.request_type

\* IsAsyncJob testing the wrong status constant
IsAsyncJob_InProgress(body) ==
    body.status = in_progress /\ request_type_of(body) = "async"

\* _parse_response, first branch: a background job the caller did not block for
IsAsyncJob(body) ==
    body.status = processing /\ request_type_of(body) = "async"

\* IsSyncJob taking every pending status for a job to poll
IsSyncJob_AnyPending(body) ==
    (body.status = processing \/ body.status = in_progress)
        /\ request_type_of(body) = "sync"

\* _parse_response, second branch: a job to be polled
IsSyncJob(body) ==
    body.status = processing /\ request_type_of(body) = "sync"

\* DirectDisposition that returns the data whatever success says
DirectDisposition_AlwaysData(env) == Return(env.data)

\* _parse_response, third and fourth branch: a direct envelope returns its
\* data when success is truthy, else fails with the envelope's message
DirectDisposition(env) ==
    IF env.success THEN Return(env.data)
    ELSE Raise("InvalidRequestError", <<"Invalid request: ", Str(env.message)>>)

\* _parse_response on the initial response, up to the call of _get_output;
\* kind "poll" stands for entering _get_output
EnterPoll == [kind |-> "poll", cls |-> "-", msg |-> <<>>, value |-> "-"]
_parse_response(response) ==
    LET body == response.body IN
    IF body.kind = "text"
    THEN Raise("InvalidRequestError", <<"Invalid request: ", Text(body)>>)
    ELSE IF body.kind = "array"
    THEN Raise("AttributeError", <<"'list' object has no attribute 'get'">>)
    ELSE IF IsAsyncJob(body) THEN Return(None)
    ELSE IF IsSyncJob(body)
    THEN IF body.data = None
         THEN Raise("AttributeError", <<"'NoneType' object has no attribute 'get'">>)
         ELSE EnterPoll
    ELSE DirectDisposition(body)

\* _make_request after the physical exchange delivered `response`
Deliver(response) ==
    IF raise_for_status(response.status_code)
    THEN _handle_request_error("HTTPError", response)
    ELSE _parse_response(response)

\* the call ends: a value or an exception reaches the caller, and the locals
\* of the backoff wrapper are gone
Finish(cs, out) ==
    [cs EXCEPT !.pc = "done", !.outcome = out, !.now = 0, !.n = 0]

\* one physical attempt of the exchange answered by the server with r
Respond(c, r) ==
    LET cs == call[c]
        k == cs.attempts + 1
        at == [cs EXCEPT !.attempts = k, !.last = r]
    IN
    /\ cs.pc = "exchange"
    /\ Waiters(c) = {}
    /\ call' = [call EXCEPT ![c] =
          IF is_retry(cs.method, r.status_code)
          THEN IF is_exhausted(max_retries, k)
               THEN Finish(at, _handle_request_error("RetryError", NoResponse))
               ELSE at
          ELSE LET out == Deliver(r) IN
               IF out.kind = "poll"
               THEN [at EXCEPT !.pc = "poll", !.response = r,
                               !.url = output_url(r.body.data)]
               ELSE Finish([at EXCEPT !.response = r], out)]
    /\ UNCHANGED <<max_retries, session_headers, base_url, up, video>>

\* one physical attempt of the exchange that fails in the transport with f;
\* the adapter retries it while the budget lasts (retried), a failure it
\* does not retry surfaces as the RequestException f
Fail(c, f, retried) ==
    LET cs == call[c]
        k == cs.attempts + 1
        at == [cs EXCEPT !.attempts = k, !.last = NoResponse,
                         !.statusOnly = FALSE]
    IN
    /\ cs.pc = "exchange"
    /\ Waiters(c) = {}
    /\ f # "RetryError"
    /\ retried => ~is_exhausted(max_retries, k)
    /\ call' = [call EXCEPT ![c] =
          IF retried THEN at
          ELSE Finish(at, _handle_request_error(f, NoResponse))]
    /\ UNCHANGED <<max_retries, session_headers, base_url, up, video>>

\* responses the server may give to the initial exchange; a 3xx answer
\* that requests does not follow carries a direct envelope
InitialResponses ==
    {[status_code |-> s, body |-> b] :
        s \in StatusCodes \ {300}, b \in InitialBodies} \cup
    {[status_code |-> 300, body |-> Envelope("done", None, s, "m1", "D1", NoNested)] :
        s \in BOOLEAN}

\* ------------------------------------------------------ polling protocol
\* seconds one GET against output_url may take
ReqDurations == {1, 100}

\* terminal envelopes of the polling endpoint, with or without a nested
\* `response` envelope
TerminalBodies ==
    {Envelope("done", None, s, "m2", d, r) :
        s \in BOOLEAN, d \in {None, "D1"},
        r \in {NoNested, Nested(TRUE, None, "D2"), Nested(FALSE, "m3", None)}}

\* pending envelopes of the polling endpoint
PendingBodies ==
    {Envelope(st, None, TRUE, None, "D1", NoNested) : st \in {processing, in_progress}}

\* answers of the polling endpoint; _get_output never looks at the HTTP
\* status, so a 401 may carry a pending or a terminal envelope
PolledResponses ==
    {[status_code |-> 200, body |-> b] :
        b \in {TextBody, ArrayBody} \cup PendingBodies \cup TerminalBodies} \cup
    {[status_code |-> 401, body |-> b] :
        b \in {Envelope(processing, None, TRUE, None, "D1", NoNested),
               Envelope("done", None, TRUE, "m2", "D1", NoNested)}}

\* what self.session.get(url) does: it answers, or raises a transport error
PollResults ==
    {[kind |-> "response", exc |-> "-", response |-> r] : r \in PolledResponses} \cup
    {[kind |-> "exception", exc |-> e, response |-> NoResponse] :
        e \in {"RetryError", "Timeout", "ConnectionError"}}

\* session.get(None): requests refuses the URL before sending anything
MissingSchemaResult ==
    [kind |-> "exception", exc |-> "MissingSchema", response |-> NoResponse]

\* IsPending that forgets the in_progress status
IsPending_OnlyProcessing(body) == body.status = processing

\* _get_output: the status test that keeps the poll going
IsPending(body) ==
    body.status = in_progress \/ body.status = processing

\* _get_output body: the exception one poll raises, or "-" when it returns
PollException(res) ==
    IF res.kind = "exception" THEN res.exc
    ELSE IF res.response.body.kind = "text" THEN "JSONDecodeError"
    ELSE IF res.response.body.kind = "array" THEN "AttributeError"
    ELSE IF IsPending(res.response.body) THEN "Exception"
    ELSE "-"

\* _get_output return value: response_json.get("response") or response_json
_get_output(body) ==
    IF body.response.kind = "object" THEN body.response ELSE body

\* PolledDisposition that drops the envelope's message
PolledDisposition_NoMessage(env) ==
    IF env.success THEN Return(env.data)
    ELSE Raise("InvalidRequestError", <<"Invalid request: ", "Unknown error">>)

\* _parse_response after _get_output returned: data on success, else
\* InvalidRequestError with the message
PolledDisposition(env) ==
    IF env.success THEN Return(env.data)
    ELSE Raise("InvalidRequestError", <<"Invalid request: ", Str(env.message)>>)

\* exceptions that are ValueError (caught by _parse_response's except)
ValueErrors == {"JSONDecodeError", "MissingSchema"}

\* the exception backoff re-raises on give-up, as it reaches the caller
\* through _parse_response's `except ValueError` and _make_request's
\* `except RequestException`
Propagate(e, response) ==
    IF e \in ValueErrors
    THEN Raise("InvalidRequestError", <<"Invalid request: ", Text(response.body)>>)
    ELSE IF e \in TransportErrors
    THEN _handle_request_error(e, NoResponse)
    ELSE IF e = "AttributeError"
    THEN Raise("AttributeError", <<"'list' object has no attribute 'get'">>)
    ELSE Raise("Exception", <<"Stuck on processing status">>)

\* backoff.expo: the n-th wait is factor * base ** n = 2 ** n
expo(n) == 2 ^ n

\* the retry loop without a ceiling (max_time not passed to the decorator)
max_time_never_exceeded(elapsed) == FALSE

\* backoff's give-up test, on the elapsed time read before the try
max_time_exceeded(elapsed) == elapsed >= max_time

\* backoff._next_wait: the wait, capped by what is left of max_time (the
\* wait is taken at its full value 2 ** n; the time a round takes varies
\* through the duration of its GET)
_next_wait(n, elapsed) ==
    IF expo(n) < max_time - elapsed THEN expo(n) ELSE max_time - elapsed

\* one round of backoff's retry loop around _get_output: read the elapsed
\* time, GET output_url (d seconds), then return, give up or sleep
Poll(c, d, res) ==
    LET cs == call[c]
        elapsed == cs.now
        e == PollException(res)
        sent == res # MissingSchemaResult
        at == [cs EXCEPT !.polls = IF sent THEN @ + 1 ELSE @,
                         !.polled = IF e = "-" THEN res.response ELSE @,
                         !.allPending = @ /\ e = "Exception"]
    IN
    /\ cs.pc = "poll"
    /\ Waiters(c) = {}
    /\ (cs.url = None) <=> (res = MissingSchemaResult)
    /\ call' = [call EXCEPT ![c] =
          IF e = "-"
          THEN Finish(at, PolledDisposition(_get_output(res.response.body)))
          ELSE IF max_time_exceeded(elapsed)
          THEN Finish(at, Propagate(e, cs.response))
          ELSE [at EXCEPT !.now = elapsed + d + _next_wait(cs.n, elapsed),
                          !.n = cs.n + 1]]
    /\ UNCHANGED <<max_retries, session_headers, base_url, up, video>>

\* the caller takes the result; the client is ready for its next call
Finished(c) ==
    /\ call[c].pc = "done"
    /\ call' = [call EXCEPT ![c] = IdleCall]
    /\ UNCHANGED <<max_retries, session_headers, base_url, up, video>>

Next ==
    \/ \E c \in Callers : \E m \in Methods : Call(c, m, NoHeaders, None)
    \/ \E c \in Callers : \E r \in InitialResponses : Respond(c, r)
    \/ \E c \in Callers : \E f \in TransportErrors : \E b \in BOOLEAN : Fail(c, f, b)
    \/ \E c \in Callers : \E d \in ReqDurations :
          \E res \in PollResults \cup {MissingSchemaResult} : Poll(c, d, res)
    \/ \E c \in Callers : Finished(c)

Spec == Init /\ [][Next]_vars

\* ---------------------------------------------- calls with their arguments
\* a few answers of the server, one of each kind: a direct success, a job to
\* poll, an HTTP error, a retryable status
FewResponses ==
    {[status_code |-> 200, body |-> Envelope("done", None, TRUE, None, "D1", NoNested)],
     [status_code |-> 200, body |-> Envelope(processing, None, TRUE, None, Job, NoNested)],
     [status_code |-> 401, body |-> Envelope("done", None, FALSE, "m1", None, NoNested)],
     [status_code |-> 503, body |-> TextBody]}

\* a few answers of the polling endpoint: still pending, done, unreachable
FewPollResults ==
    {[kind |-> "response", exc |-> "-", response |->
        [status_code |-> 200, body |-> Envelope(processing, None, TRUE, None, "D1", NoNested)]],
     [kind |-> "response", exc |-> "-", response |->
        [status_code |-> 200, body |-> Envelope("done", None, TRUE, "m2", "D1", NoNested)]],
     [kind |-> "exception", exc |-> "Timeout", response |-> NoResponse]}

\* the client used with every combination of per-call headers and base_url
\* override, against the few answers above
NextHeaders ==
    \/ \E c \in Callers : \E m \in Methods :
          \E headers \in CallHeaders : \E base \in BaseUrls : Call(c, m, headers, base)
    \/ \E c \in Callers : \E r \in FewResponses : Respond(c, r)
    \/ \E c \in Callers : \E b \in BOOLEAN : Fail(c, "Timeout", b)
    \/ \E c \in Callers : \E res \in FewPollResults : Poll(c, 100, res)
    \/ \E c \in Callers : Finished(c)

SpecHeaders == Init /\ [][NextHeaders]_vars

\* ------------------------------------------------- two concurrent callers
\* two threads that share one client
TwoCallers == {1, 2}

InitTwo ==
    /\ max_retries = 1
    /\ session_headers = DefaultHeaders
    /\ base_url = "https://api"
    /\ call = [c \in TwoCallers |-> IdleCall]
    /\ up = NoUpload
    /\ video = NoVideo

\* what moves caller c's call forward once it is made: the server answers
\* or fails the request in flight, the poll loop makes its next round, the
\* caller takes the result
Progress(c) ==
    \/ \E r \in FewResponses : Respond(c, r)
    \/ \E b \in BOOLEAN : Fail(c, "Timeout", b)
    \/ \E res \in FewPollResults : Poll(c, 100, res)
    \/ Finished(c)

NextTwo ==
    \/ \E c \in TwoCallers : \E m \in {"GET", "POST"} : Call(c, m, NoHeaders, None)
    \/ \E c \in TwoCallers : Progress(c)

\* every request in flight is eventually answered or failed and every
\* sleep ends, per thread
SpecTwo ==
    InitTwo /\ [][NextTwo]_vars /\ \A c \in TwoCallers : WF_vars(Progress(c))

\* ----------------------------------------------------------------- upload
\* src/videodb/_upload.py: upload(_connection, file_path, url, ...)

\* Python truthiness of an optional string argument
Truthy(x) == x # None /\ x # ""

\* the file_path / url arguments a caller may pass
FilePaths == {None, "", "dir/clip.mp4"}
Urls == {None, "", "https://media/clip.mp4"}

\* one network request: what it is and the URL it carries (the target of
\* the file upload, the `url` field of the register and streaming bodies)
Req(op, url) == [op |-> op, url |-> url]

\* the precondition that rejects only the call without any input
precondition_error_neither(file_path, url) ==
    IF ~Truthy(file_path) /\ ~Truthy(url) THEN "Either file_path or url is required"
    ELSE None

\* the two precondition checks: the message of the VideodbError, or None
precondition_error(file_path, url) ==
    IF ~Truthy(file_path) /\ ~Truthy(url) THEN "Either file_path or url is required"
    ELSE IF Truthy(file_path) /\ Truthy(url) THEN "Only one of file_path or url is allowed"
    ELSE None

\* upload() is called: the preconditions, then the first request
upload(file_path, url) ==
    LET e == precondition_error(file_path, url)
        st == [NoUpload EXCEPT !.file_path = file_path, !.url = url, !.url_arg = url]
    IN
    /\ up.pc = "idle"
    /\ up' = IF e # None
             THEN [st EXCEPT !.pc = "done", !.outcome = Raised("VideodbError", e)]
             ELSE IF Truthy(file_path)
             THEN [st EXCEPT !.pc = "upload_url",
                             !.requests = <<Req("GET upload_url", None)>>]
             ELSE [st EXCEPT !.pc = "register",
                             !.requests = <<Req("POST register", url)>>]
    /\ UNCHANGED <<max_retries, session_headers, base_url, call, video>>

\* what _connection.get(upload_url path) may give: a typed error, None (a
\* background job), or a payload with or without upload_url
UploadUrlResults ==
    ConnectionRaises \cup {Returned(PyNone)} \cup
    {Returned([kind |-> "object", upload_url |-> u]) : u \in {None, "https://storage/put"}}

\* the GET of the upload URL is answered; the file is opened and its upload
\* is sent
upload_url_answer(out, exists) ==
    LET upload_url == out.value.upload_url IN
    /\ up.pc = "upload_url"
    /\ up' =
          IF out.kind = "raise" THEN [up EXCEPT !.pc = "done", !.outcome = out]
          ELSE IF out.value = PyNone
          THEN [up EXCEPT !.pc = "done", !.outcome =
                    Raised("AttributeError", "'NoneType' object has no attribute 'get'")]
          ELSE IF ~exists
          THEN [up EXCEPT !.pc = "done", !.upload_url = upload_url,
                          !.file = "missing", !.outcome = Raised("VideodbError", "File not found")]
          ELSE IF upload_url = None
          THEN [up EXCEPT !.pc = "done", !.file = "open",
                          !.outcome = Raised("MissingSchema", "Invalid URL 'None'")]
          ELSE [up EXCEPT !.pc = "file_upload", !.file = "open",
                          !.upload_url = upload_url,
                          !.requests = Append(@, Req("POST file", upload_url))]
    /\ UNCHANGED <<max_retries, session_headers, base_url, call, video>>

\* what requests.post(upload_url, files=files) may give: a status, or a
\* transport failure (status_code 0)
FileStatuses == {200, 403, 503, 0}

\* the file upload is answered; on success the register POST is sent with
\* url = upload_url
file_upload_answer(status_code) ==
    /\ up.pc = "file_upload"
    /\ up' =
          IF status_code = 0
          THEN [up EXCEPT !.pc = "done",
                          !.outcome = Raised("ConnectionError", "Connection aborted")]
          ELSE IF raise_for_status(status_code)
          THEN [up EXCEPT !.pc = "done", !.file_status = status_code,
                          !.outcome = Raised("VideodbError", "Error while uploading file")]
          ELSE [up EXCEPT !.pc = "register", !.file_status = status_code,
                          !.url = up.upload_url,
                          !.requests = Append(@, Req("POST register", up.upload_url))]
    /\ UNCHANGED <<max_retries, session_headers, base_url, call, video>>

\* a JSON null as the value of a key of a payload
JsonNull == "<null>"

\* `id` values of a registration payload: missing, null, or a string
MediaIds == {None, JsonNull, "m-1", "m-", "v-1", "am-1"}

\* upload_data.get("id", "")
media_id(upload_data) == IF upload_data.id = None THEN "" ELSE upload_data.id

\* media_id.startswith("m-") over the strings of MediaIds
startswith_m(id) == id \in {"m-1", "m-"}

\* what _connection.post(upload path) may give: a typed error, None (a
\* background job), or the payload of the registered media
RegisterResults ==
    ConnectionRaises \cup {Returned(PyNone)} \cup
    {Returned([kind |-> "object", id |-> i, stream_url |-> None]) : i \in MediaIds}

\* the register POST is answered; the streaming side-call is sent for a
\* media id with the prefix
register_answer(out) ==
    LET upload_data == out.value IN
    /\ up.pc = "register"
    /\ up' =
          IF out.kind = "raise" THEN [up EXCEPT !.pc = "done", !.outcome = out]
          ELSE IF upload_data = PyNone
          THEN [up EXCEPT !.pc = "done", !.upload_data = upload_data, !.outcome =
                    Raised("AttributeError", "'NoneType' object has no attribute 'get'")]
          ELSE IF media_id(upload_data) = JsonNull
          THEN [up EXCEPT !.pc = "done", !.upload_data = upload_data, !.outcome =
                    Raised("AttributeError", "'NoneType' object has no attribute 'startswith'")]
          ELSE IF startswith_m(media_id(upload_data))
          THEN [up EXCEPT !.pc = "streaming", !.upload_data = upload_data,
                          !.requests = Append(@, Req("POST streaming", up.url))]
          ELSE [up EXCEPT !.pc = "done", !.upload_data = upload_data,
                          !.outcome = Returned(upload_data)]
    /\ UNCHANGED <<max_retries, session_headers, base_url, call, video>>

\* what requests.post(STREAMING_API/upload) may give: a JSON object with or
\* without stream_url, a body that is not JSON, an HTTP error, a transport
\* failure
StreamingResults ==
    {[status_code |-> 200, json |-> TRUE, stream_url |-> u] : u \in {JsonNull, "https://stream/1"}}
    \cup {[status_code |-> 200, json |-> FALSE, stream_url |-> JsonNull],
          [status_code |-> 500, json |-> TRUE, stream_url |-> JsonNull],
          [status_code |-> 0, json |-> FALSE, stream_url |-> JsonNull]}

\* the streaming side-call is answered; upload_data gets its stream_url
streaming_answer(res) ==
    /\ up.pc = "streaming"
    /\ up' =
          IF res.status_code = 0
          THEN [up EXCEPT !.pc = "done",
                          !.outcome = Raised("ConnectionError", "Connection aborted")]
          ELSE IF raise_for_status(res.status_code)
          THEN [up EXCEPT !.pc = "done",
                          !.outcome = Raised("VideodbError", "Error while uploading file")]
          ELSE IF ~res.json
          THEN [up EXCEPT !.pc = "done",
                          !.outcome = Raised("JSONDecodeError", "Expecting value")]
          ELSE [up EXCEPT !.pc = "done",
                          !.upload_data = [@ EXCEPT !.stream_url = res.stream_url],
                          !.outcome = Returned([up.upload_data EXCEPT
                                                   !.stream_url = res.stream_url])]
    /\ UNCHANGED <<max_retries, session_headers, base_url, call, video>>

\* the caller takes the result of upload()
upload_done ==
    /\ up.pc = "done"
    /\ up' = NoUpload
    /\ UNCHANGED <<max_retries, session_headers, base_url, call, video>>

NextUpload ==
    \/ \E file_path \in FilePaths : \E url \in Urls : upload(file_path, url)
    \/ \E out \in UploadUrlResults : \E exists \in BOOLEAN : upload_url_answer(out, exists)
    \/ \E status_code \in FileStatuses : file_upload_answer(status_code)
    \/ \E out \in RegisterResults : register_answer(out)
    \/ \E res \in StreamingResults : streaming_answer(res)
    \/ upload_done

SpecUpload == Init /\ [][NextUpload]_vars

\* ------------------------------------------------------------------ Video
\* src/videodb/video.py: the transcript of a Video

\* an empty list of word timestamps / an empty text
EmptyList == "[]"
EmptyText == ""

\* the transcript / transcript_text kwargs a Video is constructed with:
\* none, empty ones, a transcript
InitialTranscripts == {<<None, None>>, <<EmptyList, EmptyText>>, <<"W0", "T0">>}

\* a list of scenes, by its content ("" for the empty list)
ScenesList(items) == [kind |-> "list", items |-> items]

\* the scenes kwarg a Video is constructed with: none, an empty list, scenes
InitialScenes == {PyNone, ScenesList(""), ScenesList("S0")}

\* lengths of a video (whole seconds stand for the floats)
Lengths == 0..MaxLength

\* Video.__init__
NewVideo(kw, scenes, length) ==
    /\ video.pc = "none"
    /\ video' = [NoVideo EXCEPT !.pc = "ready", !.transcript = kw[1],
                                !.transcript_text = kw[2],
                                !.scenes = scenes, !.length = length]
    /\ UNCHANGED <<max_retries, session_headers, base_url, call, up>>

\* str(x) of a bool
PyStr(b) == IF b THEN "True" ELSE "False"

\* self._fetch_transcript(force) as get_transcript / get_transcript_text
\* call it: the one positional argument binds to the first parameter,
\* language_code, and force keeps its default False
fetch_args(arg) == [language_code |-> PyStr(arg), force |-> FALSE]

\* Python truthiness of self.transcript
HasTranscript(t) == t # None /\ t # EmptyList

\* what the method returns: self.transcript or self.transcript_text
Attribute(v, op) == IF op = "get_transcript" THEN v.transcript ELSE v.transcript_text

\* get_transcript(force) / get_transcript_text(force) up to the request of
\* _fetch_transcript, or to the return of the cached value
get_transcript(op, arg) ==
    LET a == fetch_args(arg)
        v == [video EXCEPT !.op = op, !.force = arg, !.cached = video.transcript,
                           !.requests = <<>>, !.outcome = NoResult]
    IN
    /\ video.pc = "ready"
    /\ video' =
          IF HasTranscript(video.transcript) /\ ~a.force
          THEN [v EXCEPT !.pc = "done", !.outcome = Returned(Attribute(video, op))]
          ELSE [v EXCEPT !.pc = "fetching", !.requests =
                   <<[force |-> IF a.force THEN "true" ELSE "false",
                      language_code |-> a.language_code]>>]
    /\ UNCHANGED <<max_retries, session_headers, base_url, call, up>>

\* what _connection.get(transcription path) may give: a typed error, None,
\* or a payload with or without word_timestamps and text
TranscriptResults ==
    ConnectionRaises \cup {Returned(PyNone)} \cup
    {Returned([kind |-> "object", word_timestamps |-> w, text |-> t]) :
        w \in {None, "W1"}, t \in {None, "T1"}}

\* _fetch_transcript after its request is answered, and the return of the
\* method
transcript_answer(out) ==
    LET transcript_data == out.value
        v == [video EXCEPT
                !.transcript = IF transcript_data.word_timestamps = None
                               THEN EmptyList ELSE transcript_data.word_timestamps,
                !.transcript_text = IF transcript_data.text = None
                                    THEN EmptyText ELSE transcript_data.text]
    IN
    /\ video.pc = "fetching"
    /\ video' =
          IF out.kind = "raise" THEN [video EXCEPT !.pc = "done", !.outcome = out]
          ELSE IF transcript_data = PyNone
          THEN [video EXCEPT !.pc = "done", !.outcome =
                    Raised("AttributeError", "'NoneType' object has no attribute 'get'")]
          ELSE [v EXCEPT !.pc = "done", !.outcome = Returned(Attribute(v, video.op))]
    /\ UNCHANGED <<max_retries, session_headers, base_url, call, up>>

\* Python truthiness of self.scenes / scene_data
HasScenes(s) == s.kind = "list" /\ s.items # ""

\* get_scenes up to its request, or to the return of the cached scenes
get_scenes ==
    LET v == [video EXCEPT !.op = "get_scenes", !.force = FALSE,
                           !.scenes_before = video.scenes,
                           !.after_delete = video.deleted, !.deleted = FALSE,
                           !.requests = <<>>, !.outcome = NoResult]
    IN
    /\ video.pc = "ready"
    /\ video' =
          IF HasScenes(video.scenes)
          THEN [v EXCEPT !.pc = "done", !.outcome = Returned(video.scenes)]
          ELSE [v EXCEPT !.pc = "scenes", !.requests = <<[op |-> "GET index"]>>]
    /\ UNCHANGED <<max_retries, session_headers, base_url, call, up>>

\* what _connection.get(index path) may give: a typed error, None, an
\* empty list, a list of scenes
SceneResults ==
    ConnectionRaises \cup
    {Returned(PyNone), Returned(ScenesList("")), Returned(ScenesList("S1"))}

\* get_scenes after its request is answered
scenes_answer(out) ==
    LET scene_data == out.value IN
    /\ video.pc = "scenes"
    /\ video' =
          IF out.kind = "raise" THEN [video EXCEPT !.pc = "done", !.outcome = out]
          ELSE [video EXCEPT !.pc = "done", !.scenes = scene_data,
                   !.outcome = Returned(IF HasScenes(scene_data)
                                        THEN scene_data ELSE PyNone)]
    /\ UNCHANGED <<max_retries, session_headers, base_url, call, up>>

\* delete_scene_index: the POST of the delete
delete_scene_index ==
    /\ video.pc = "ready"
    /\ video' = [video EXCEPT !.pc = "deleting", !.op = "delete_scene_index",
                              !.force = FALSE, !.scenes_before = video.scenes,
                              !.requests = <<[op |-> "POST index/delete"]>>,
                              !.outcome = NoResult]
    /\ UNCHANGED <<max_retries, session_headers, base_url, call, up>>

\* what _connection.post(index/delete path) may give: a typed error, None,
\* or a payload
DeleteResults ==
    ConnectionRaises \cup {Returned(PyNone), Returned([kind |-> "object"])}

\* a delete that forgets the cache even when its request raised
scenes_after_delete_always(out, scenes) == PyNone

\* self.scenes after delete_scene_index: `self.scenes = None` follows the
\* POST, so an exception of the POST skips it
scenes_after_delete(out, scenes) ==
    IF out.kind = "raise" THEN scenes ELSE PyNone

\* delete_scene_index after its request is answered
delete_answer(out) ==
    /\ video.pc = "deleting"
    /\ video' = [video EXCEPT
                    !.pc = "done",
                    !.scenes = scenes_after_delete(out, video.scenes),
                    !.deleted = IF out.kind = "raise" THEN @ ELSE TRUE,
                    !.outcome = IF out.kind = "raise" THEN out ELSE Returned(PyNone)]
    /\ UNCHANGED <<max_retries, session_headers, base_url, call, up>>

\* the timestamp argument of insert_video
Timestamps == -1..(MaxLength + 1)

\* the video to insert
OtherVideos == {[id |-> "v2", length |-> l] : l \in Lengths}

\* Shot(_connection, video_id, video_length, video_title, start, end): the
\* fields the compile request reads
Shot(video_id, start, end) == [video_id |-> video_id, start |-> start, end |-> end]

\* if timestamp > float(self.length): timestamp = float(self.length)
clamp(timestamp, length) == IF timestamp > length THEN length ELSE timestamp

\* all_shots = [pre_shot, inserted_shot, post_shot]
all_shots(self, other, timestamp) ==
    LET t == clamp(timestamp, self.length) IN
    <<Shot("v1", 0, t), Shot(other.id, 0, other.length), Shot("v1", t, self.length)>>

\* insert_video(video, timestamp) up to its compile request
insert_video(other, timestamp) ==
    /\ video.pc = "ready"
    /\ video' = [video EXCEPT !.pc = "compiling", !.op = "insert_video",
                              !.force = FALSE, !.other = other,
                              !.timestamp = timestamp,
                              !.requests = <<[op |-> "POST compile",
                                  shots |-> all_shots(video, other, timestamp)]>>,
                              !.outcome = NoResult]
    /\ UNCHANGED <<max_retries, session_headers, base_url, call, up>>

\* what _connection.post(compile path) may give: a typed error, None, or a
\* payload with or without stream_url
CompileResults ==
    ConnectionRaises \cup {Returned(PyNone)} \cup
    {Returned([kind |-> "object", stream_url |-> u]) : u \in {None, "https://stream/2"}}

\* insert_video after its request is answered
compile_answer(out) ==
    LET compile_data == out.value IN
    /\ video.pc = "compiling"
    /\ video' =
          IF out.kind = "raise" THEN [video EXCEPT !.pc = "done", !.outcome = out]
          ELSE IF compile_data = PyNone
          THEN [video EXCEPT !.pc = "done", !.outcome =
                    Raised("AttributeError", "'NoneType' object has no attribute 'get'")]
          ELSE [video EXCEPT !.pc = "done",
                             !.outcome = Returned(compile_data.stream_url)]
    /\ UNCHANGED <<max_retries, session_headers, base_url, call, up>>

\* the caller takes the result of the method; the arguments and locals of
\* the call are gone, the attributes of the object stay
video_done ==
    /\ video.pc = "done"
    /\ video' = [NoVideo EXCEPT !.pc = "ready",
                                !.transcript = video.transcript,
                                !.transcript_text = video.transcript_text,
                                !.scenes = video.scenes,
                                !.length = video.length,
                                !.deleted = video.deleted]
    /\ UNCHANGED <<max_retries, session_headers, base_url, call, up>>

NextVideo ==
    \/ \E kw \in InitialTranscripts : \E scenes \in InitialScenes :
          \E length \in Lengths : NewVideo(kw, scenes, length)
    \/ \E op \in {"get_transcript", "get_transcript_text"} :
          \E force \in BOOLEAN : get_transcript(op, force)
    \/ \E out \in TranscriptResults : transcript_answer(out)
    \/ get_scenes
    \/ \E out \in SceneResults : scenes_answer(out)
    \/ delete_scene_index
    \/ \E out \in DeleteResults : delete_answer(out)
    \/ \E other \in OtherVideos : \E timestamp \in Timestamps :
          insert_video(other, timestamp)
    \/ \E out \in CompileResults : compile_answer(out)
    \/ video_done

SpecVideo == Init /\ [][NextVideo]_vars

\* ================================================================== claims
\* the text of an error message contains `text` verbatim
Contains(msg, text) == \E i \in DOMAIN msg : msg[i] = text

\* the typed errors of the transport client
TypedErrors == {"AuthenticationError", "InvalidRequestError"}

\* C1 (as stated): whenever the poll reached a terminal envelope whose own
\* success is true, the call returns that envelope's own data field.
C1_ReturnsEnvelopeData ==
    \A c \in Callers :
        LET cs == call[c] IN
        (cs.polled # NoResponse /\ cs.polled.body.success)
            => cs.outcome = Return(cs.polled.body.data)

\* C1 (amended): a call polls only for a processing envelope of request_type
\* sync (or without request_type) that carries data, and it sends its GETs to
\* data.output_url; the call ends at the first polled envelope whose status
\* is neither in_progress nor processing, after at least one GET and with no
\* GET after it; a terminal envelope without a nested `response` and with
\* success = true makes the call return that envelope's data, and a terminal
\* envelope with a nested `response` whose success is true makes the call
\* return the nested envelope's data.
C1_PollUntilTerminal ==
    \A c \in Callers :
        LET cs == call[c]
            body == cs.polled.body
        IN
        /\ cs.pc = "poll" =>
              /\ cs.response.body.status = "processing"
              /\ cs.response.body.request_type \in {"sync", None}
              /\ cs.response.body.data # None
              /\ (cs.response.body.data = Job) => cs.url = "U"
        /\ cs.polls > 0 => cs.url = "U"
        /\ cs.polled # NoResponse =>
              /\ cs.pc = "done"
              /\ cs.polls >= 1
              /\ body.status \notin {"in_progress", "processing"}
              /\ (body.response.kind = "none" /\ body.success)
                    => cs.outcome = Return(body.data)
              /\ (body.response.kind = "object" /\ body.response.success)
                    => cs.outcome = Return(body.response.data)

\* C1 witness: a POST polled three times and returned the data of the
\* terminal envelope, which had no nested `response`
C1_Witness ==
    \E c \in Callers :
        LET cs == call[c] IN
        /\ cs.pc = "done" /\ cs.method = "POST" /\ cs.polls = 3
        /\ cs.polled # NoResponse
        /\ cs.polled.body.response.kind = "none"
        /\ cs.polled.body.success
        /\ cs.outcome = Return("D1")

C3_TypedOutcomes ==
    \A c \in Callers :
        call[c].pc = "done" =>
            \/ call[c].outcome.kind = "return"
            \/ /\ call[c].outcome.kind = "raise"
               /\ call[c].outcome.cls \in TypedErrors

\* C4: a call whose initial response is an envelope with status processing
\* and request_type async returns null and never polls, whatever the
\* envelope's success, message and data are.
C4_AsyncReturnsNull ==
    \A c \in Callers :
        LET cs == call[c] IN
        (/\ cs.response # NoResponse
         /\ cs.response.status_code < 400
         /\ cs.response.body.kind = "object"
         /\ cs.response.body.status = "processing"
         /\ cs.response.body.request_type = "async")
            => /\ cs.pc = "done"
               /\ cs.outcome = Return(None)
               /\ cs.polls = 0
               /\ cs.polled = NoResponse

\* C4 witness: an async job envelope with success = false, a message and a
\* job pointer was answered to a PATCH
C4_Witness ==
    \E c \in Callers :
        LET cs == call[c] IN
        /\ cs.pc = "done" /\ cs.method = "PATCH"
        /\ cs.response.status_code = 200
        /\ cs.response.body = Envelope("processing", "async", FALSE, "m1", Job, NoNested)
        /\ cs.outcome = Return(None)

\* C5 (as stated): whenever the poll reached a terminal envelope whose own
\* success is false, the call raises InvalidRequestError with that
\* envelope's own message.
C5_RaisesEnvelopeMessage ==
    \A c \in Callers :
        LET cs == call[c] IN
        (cs.polled # NoResponse /\ ~cs.polled.body.success)
            => /\ cs.outcome.kind = "raise"
               /\ cs.outcome.cls = "InvalidRequestError"
               /\ Contains(cs.outcome.msg, cs.polled.body.message)

\* C5 (amended): a terminal polled envelope without a nested `response` and
\* with success false makes the call raise InvalidRequestError with that
\* envelope's message; a terminal polled envelope with a nested `response`
\* whose success is false makes the call raise InvalidRequestError with the
\* nested envelope's message; in both cases no value is returned.
C5_TerminalFailureRaises ==
    \A c \in Callers :
        LET cs == call[c]
            body == cs.polled.body
        IN
        cs.polled # NoResponse =>
            /\ (body.response.kind = "none" /\ ~body.success) =>
                  /\ cs.outcome.kind = "raise"
                  /\ cs.outcome.cls = "InvalidRequestError"
                  /\ Contains(cs.outcome.msg, body.message)
            /\ (body.response.kind = "object" /\ ~body.response.success) =>
                  /\ cs.outcome.kind = "raise"
                  /\ cs.outcome.cls = "InvalidRequestError"
                  /\ Contains(cs.outcome.msg, body.response.message)

\* C5 witness: a poll ended at a terminal envelope with success = false and
\* the call raised InvalidRequestError with its message
C5_Witness ==
    \E c \in Callers :
        LET cs == call[c] IN
        /\ cs.pc = "done" /\ cs.polls >= 2
        /\ cs.polled # NoResponse
        /\ cs.polled.body.response.kind = "none"
        /\ ~cs.polled.body.success
        /\ cs.outcome = Raise("InvalidRequestError", <<"Invalid request: ", "m2">>)

\* C6 (as stated): a call whose exchange ended with a non-2xx answer never
\* returns a value; it raises AuthenticationError for a 401 and
\* InvalidRequestError for every other non-2xx status.
C6_NonSuccessStatusRaises ==
    \A c \in Callers :
        LET cs == call[c] IN
        (/\ cs.pc = "done"
         /\ cs.last # NoResponse
         /\ (cs.last.status_code < 200 \/ cs.last.status_code > 299))
            => /\ cs.outcome.kind = "raise"
               /\ cs.outcome.cls = IF cs.last.status_code = 401
                                   THEN "AuthenticationError"
                                   ELSE "InvalidRequestError"

C8_RetryBudget ==
    \A c \in Callers :
        LET cs == call[c] IN
        /\ cs.attempts <= max_retries + 1
        /\ (/\ cs.pc = "done" /\ cs.last # NoResponse
            /\ cs.method \in {"GET", "PUT", "DELETE"}
            /\ cs.last.status_code \in {502, 503, 504})
              => /\ cs.attempts = max_retries + 1
                 /\ cs.outcome.kind = "raise"
                 /\ cs.outcome.cls = "InvalidRequestError"
                 /\ Contains(cs.outcome.msg, "Max retries exceeded")

\* C8 witness: max_retries = 2, a DELETE answered 503 three times
C8_Witness ==
    \E c \in Callers :
        LET cs == call[c] IN
        /\ max_retries = 2
        /\ cs.pc = "done" /\ cs.method = "DELETE" /\ cs.statusOnly
        /\ cs.attempts = 3
        /\ cs.last.status_code = 503
        /\ cs.outcome.kind = "raise"

\* C9: a directly-successful envelope (success true, status not processing,
\* any request_type) makes the call return the envelope's data as it is,
\* and no GET is sent to a polling endpoint.
C9_DirectSuccess ==
    \A c \in Callers :
        LET cs == call[c] IN
        (/\ cs.response # NoResponse
         /\ cs.response.status_code < 400
         /\ cs.response.body.kind = "object"
         /\ cs.response.body.success
         /\ cs.response.body.status # "processing")
            => /\ cs.pc = "done"
               /\ cs.outcome = Return(cs.response.body.data)
               /\ cs.polls = 0
               /\ cs.polled = NoResponse

\* C9 witness: an envelope with status in_progress, request_type async,
\* success = true and a job pointer as data was returned as it is
C9_Witness ==
    \E c \in Callers :
        LET cs == call[c] IN
        /\ cs.pc = "done"
        /\ cs.response.status_code = 200
        /\ cs.response.body = Envelope("in_progress", "async", TRUE, "m1", Job, NoNested)
        /\ cs.outcome = Return(Job)

\* C10 (as stated): whenever a call raises after a non-2xx answer whose body
\* is a JSON object with a message, the error is typed and its message
\* contains that text.
C10_MessageVerbatim ==
    \A c \in Callers :
        LET cs == call[c] IN
        (/\ cs.pc = "done"
         /\ cs.last # NoResponse
         /\ (cs.last.status_code < 200 \/ cs.last.status_code > 299)
         /\ cs.last.body.kind = "object"
         /\ cs.last.body.message # None
         /\ cs.outcome.kind = "raise")
            => /\ cs.outcome.cls \in TypedErrors
               /\ Contains(cs.outcome.msg, cs.last.body.message)

\* C10 (amended): for every 4xx / 5xx response that the transport retry does
\* not consume (it is delivered to _make_request and classified as an HTTP
\* error) and whose body is a JSON object with a message, the call raises
\* AuthenticationError or InvalidRequestError with a message that contains
\* that text.
C10_HttpErrorMessage ==
    \A c \in Callers :
        LET cs == call[c] IN
        (/\ cs.pc = "done"
         /\ cs.response # NoResponse
         /\ cs.response.status_code >= 400
         /\ cs.response.status_code < 600
         /\ cs.response.body.kind = "object"
         /\ cs.response.body.message # None)
            => /\ cs.outcome.kind = "raise"
               /\ cs.outcome.cls \in TypedErrors
               /\ Contains(cs.outcome.msg, cs.response.body.message)

\* C10 witness: a 401 with {message: m1} raised AuthenticationError "Error: m1"
C10_Witness ==
    \E c \in Callers :
        LET cs == call[c] IN
        /\ cs.pc = "done"
        /\ cs.response.status_code = 401
        /\ cs.response.body.kind = "object"
        /\ cs.response.body.message = "m1"
        /\ cs.outcome = Raise("AuthenticationError", <<"Error: ", "m1">>)

\* C11 (as stated): an HTTP error whose body is a JSON object without a
\* message field raises an error that carries the raw body and not
\* "Unknown error".
C11_RawBodyBeforeDefault ==
    \A c \in Callers :
        LET cs == call[c] IN
        (/\ cs.pc = "done"
         /\ cs.response # NoResponse
         /\ cs.response.status_code >= 400
         /\ cs.response.status_code < 600
         /\ cs.response.body.kind = "object"
         /\ cs.response.body.message = None)
            => /\ cs.outcome.kind = "raise"
               /\ Contains(cs.outcome.msg, Text(cs.response.body))
               /\ ~Contains(cs.outcome.msg, "Unknown error")

\* C11 (amended): the message of the error raised for a delivered 4xx / 5xx
\* response is the body's message field when the body is a JSON object that
\* has one, "Unknown error" when the body is a JSON object without a message
\* field, and the raw body only when the body is not JSON.
C11_MessageFallback ==
    \A c \in Callers :
        LET cs == call[c]
            body == cs.response.body
        IN
        (/\ cs.pc = "done"
         /\ cs.response # NoResponse
         /\ cs.response.status_code >= 400
         /\ cs.response.status_code < 600
         /\ body.kind \in {"object", "text"})
            => /\ cs.outcome.kind = "raise"
               /\ cs.outcome.cls \in TypedErrors
               /\ Len(cs.outcome.msg) = 2
               /\ cs.outcome.msg[2] =
                     IF body.kind = "text" THEN "raw-text"
                     ELSE IF body.message = None THEN "Unknown error"
                     ELSE body.message

\* C11 witness: a 404 whose JSON object body has no message field raised
\* InvalidRequestError "Invalid request: Unknown error"
C11_Witness ==
    \E c \in Callers :
        LET cs == call[c] IN
        /\ cs.pc = "done"
        /\ cs.response.status_code = 404
        /\ cs.response.body.kind = "object"
        /\ cs.response.body.message = None
        /\ cs.outcome = Raise("InvalidRequestError", <<"Invalid request: ", "Unknown error">>)

\* C12: a 2xx envelope whose status is not processing and whose success is
\* not true makes the call raise InvalidRequestError with the envelope's
\* message, whatever its request_type; no GET is sent to a polling endpoint
\* and no value is returned.
C12_DirectFailure ==
    \A c \in Callers :
        LET cs == call[c] IN
        (/\ cs.response # NoResponse
         /\ cs.response.status_code >= 200
         /\ cs.response.status_code <= 299
         /\ cs.response.body.kind = "object"
         /\ ~cs.response.body.success
         /\ cs.response.body.status # "processing")
            => /\ cs.pc = "done"
               /\ cs.outcome =
                     Raise("InvalidRequestError",
                           <<"Invalid request: ", Str(cs.response.body.message)>>)
               /\ cs.polls = 0
               /\ cs.polled = NoResponse

\* C12 witness: a 200 envelope with status in_progress, request_type async,
\* success = false and message m1 raised "Invalid request: m1"
C12_Witness ==
    \E c \in Callers :
        LET cs == call[c] IN
        /\ cs.pc = "done"
        /\ cs.response.status_code = 200
        /\ cs.response.body = Envelope("in_progress", "async", FALSE, "m1", Job, NoNested)
        /\ cs.outcome = Raise("InvalidRequestError", <<"Invalid request: ", "m1">>)
        /\ cs.polls = 0

\* C13: in the headers one call sends with the requests of its exchange, a
\* per-call header named like a default session header carries the call's
\* value, every default header the call does not name carries the session's
\* value, and nothing else is sent but the call's other headers.
C13_CallHeaderWins ==
    \A c \in Callers :
        LET cs == call[c] IN
        cs.pc # "idle" =>
            /\ DOMAIN cs.request_headers = DOMAIN session_headers \cup DOMAIN cs.headers
            /\ \A h \in DOMAIN session_headers :
                  cs.request_headers[h] =
                      IF h \in DOMAIN cs.headers THEN cs.headers[h] ELSE session_headers[h]
            /\ \A h \in DOMAIN cs.headers : cs.request_headers[h] = cs.headers[h]

\* C13 witness: a request went out for a call that passed its own
\* x-access-token and no Content-Type: it carried call_key and
\* application/json
C13_Witness ==
    \E c \in Callers :
        LET cs == call[c] IN
        /\ cs.attempts > 0
        /\ DOMAIN cs.headers = {"x-access-token"}
        /\ cs.request_headers["x-access-token"] = "call_key"
        /\ cs.request_headers["Content-Type"] = "application/json"

\* C20: whatever calls were made, with or without per-call headers or a
\* base_url override, finished or not, the session's headers are the two
\* that __init__ installed and base_url is the constructor's value.
C20_SessionUntouched ==
    /\ session_headers = DefaultHeaders
    /\ base_url = "https://api"

\* C20 witness: a call made with its own x-access-token and Content-Type and
\* a base_url override has ended with an exception, and the session still
\* has its defaults
C20_Witness ==
    \E c \in Callers :
        LET cs == call[c] IN
        /\ cs.pc = "done"
        /\ cs.outcome.kind = "raise"
        /\ DOMAIN cs.headers = {"x-access-token", "Content-Type"}
        /\ cs.request_url = "https://other"
        /\ session_headers["x-access-token"] = "api_key"
        /\ session_headers["Content-Type"] = "application/json"

\* C16: a call whose poll was ended by a response with a non-2xx HTTP status
\* raises AuthenticationError when that status is 401 and InvalidRequestError
\* otherwise; it does not return the data of that response's envelope.
C16_PolledStatusRaises ==
    \A c \in Callers :
        LET cs == call[c] IN
        (/\ cs.pc = "done"
         /\ cs.polled # NoResponse
         /\ (cs.polled.status_code < 200 \/ cs.polled.status_code > 299))
            => /\ cs.outcome.kind = "raise"
               /\ cs.outcome.cls =
                     IF cs.polled.status_code = 401
                     THEN "AuthenticationError" ELSE "InvalidRequestError"

\* C15: with two callers on one client, while one call waits between polls
\* the other caller can always take its next step (start a call, have its
\* request answered, make its own poll round), and a call the other caller
\* has started always proceeds to completion.
C15_WaitingBlocksNobody ==
    \A a \in TwoCallers : \A b \in TwoCallers \ {a} :
        /\ [](call[a].pc = "poll" =>
                /\ call[b].pc = "idle" => ENABLED Call(b, "GET", NoHeaders, None)
                /\ call[b].pc # "idle" => ENABLED Progress(b))
        /\ (call[b].pc = "exchange") ~> (call[b].pc = "done")

\* C15 witness: caller 1 is between two polls (it has polled once and the
\* job is still pending) and caller 2, which started its call after that,
\* has its result
C15_Witness ==
    /\ call[1].pc = "poll" /\ call[1].polls = 1 /\ call[1].now > 0
    /\ call[2].pc = "done" /\ call[2].outcome = Return("D1")
    /\ call[2].attempts = 1

\* C14: upload called with neither file_path nor url, or with both, raises
\* VideodbError and has issued no network request: no GET of the upload URL,
\* no file upload, no register POST, no streaming call.
C14_PreconditionBeforeNetwork ==
    (/\ up.pc # "idle"
     /\ (up.file_path \in {None, ""}) = (up.url_arg \in {None, ""}))
        => /\ up.pc = "done"
           /\ up.outcome.kind = "raise"
           /\ up.outcome.cls = "VideodbError"
           /\ up.requests = <<>>

\* C14 witness: upload called with a file_path and a url has raised
\* VideodbError "Only one of file_path or url is allowed"
C14_Witness ==
    /\ up.pc = "done"
    /\ up.file_path = "dir/clip.mp4"
    /\ up.url_arg = "https://media/clip.mp4"
    /\ up.outcome = Raised("VideodbError", "Only one of file_path or url is allowed")
    /\ up.requests = <<>>

\* C17: an upload with a file_path issues its requests in the order GET
\* upload URL, file upload to that URL, register POST with url = that URL
\* (then the streaming call); the register POST is there only when the file
\* was found and its upload answered without an HTTP error; when the file is
\* missing or the file upload answered an HTTP error, upload has raised
\* VideodbError and neither the register POST nor the streaming call was
\* issued.
C17_FileUploadOrder ==
    (up.pc # "idle" /\ up.file_path \notin {None, ""} /\ up.url_arg \in {None, ""})
        => /\ \A i \in DOMAIN up.requests :
                 /\ i <= 4
                 /\ up.requests[i].op =
                       <<"GET upload_url", "POST file", "POST register", "POST streaming">>[i]
                 /\ i \in {2, 3, 4} => up.requests[i].url = up.upload_url
           /\ Len(up.requests) >= 3 =>
                 /\ up.file = "open"
                 /\ up.file_status >= 200 /\ up.file_status < 400
           /\ (up.file = "missing" \/ up.file_status >= 400) =>
                 /\ up.pc = "done"
                 /\ up.outcome.kind = "raise"
                 /\ up.outcome.cls = "VideodbError"
                 /\ Len(up.requests) < 3

\* C17 witness: a file upload went through and its registration was
\* returned: three requests, the register POST carrying the upload URL
C17_Witness ==
    /\ up.pc = "done"
    /\ up.file_path = "dir/clip.mp4"
    /\ up.outcome.kind = "return"
    /\ Len(up.requests) = 3
    /\ up.requests[2] = Req("POST file", "https://storage/put")
    /\ up.requests[3] = Req("POST register", "https://storage/put")

\* C18: the streaming call is issued only for a registration payload whose
\* id starts with "m-"; after any other registration result no streaming
\* call is issued and upload returns that result as it is, without a
\* stream_url and without raising.
C18_SideCallOnlyForPrefix ==
    LET prefixed == /\ up.upload_data.kind = "object"
                    /\ up.upload_data.id \in {"m-1", "m-"}
    IN
    /\ (\E i \in DOMAIN up.requests : up.requests[i].op = "POST streaming") => prefixed
    /\ (up.upload_data # Nothing /\ ~prefixed)
          => /\ up.pc = "done"
             /\ up.outcome.kind = "return"
             /\ up.outcome.value = up.upload_data

\* C19: a call of get_transcript(force) or get_transcript_text(force) sends a
\* transcription request exactly when the video has no transcript yet or
\* force is true; with force = True the request carries force = "true", and
\* with force = False and a transcript at hand nothing is sent and the
\* value at hand is returned.
C19_ForceRefetches ==
    (/\ video.op \in {"get_transcript", "get_transcript_text"}
     /\ video.pc \in {"fetching", "done"}) =>
        LET has == video.cached \notin {None, "[]"} IN
        /\ (Len(video.requests) = 1) <=> (~has \/ video.force)
        /\ video.force =>
              \A i \in DOMAIN video.requests : video.requests[i].force = "true"
        /\ (~video.force /\ has) =>
              /\ video.requests = <<>>
              /\ video.pc = "done"
              /\ video.outcome.kind = "return"

\* C21: over any sequence of get_scenes and delete_scene_index calls, a
\* get_scenes that finds non-empty scenes returns them without a request and
\* leaves them as they are; delete_scene_index clears the scenes when its
\* request went through and leaves them unchanged when it raised; and the
\* first get_scenes after a delete that went through sends a request.
C21_SceneCache ==
    /\ (/\ video.op = "get_scenes"
        /\ video.scenes_before.kind = "list"
        /\ video.scenes_before.items # "")
          => /\ video.pc = "done"
             /\ video.requests = <<>>
             /\ video.outcome.kind = "return"
             /\ video.outcome.value = video.scenes_before
             /\ video.scenes = video.scenes_before
    /\ (video.op = "delete_scene_index" /\ video.pc = "done")
          => /\ video.outcome.kind = "raise" => video.scenes = video.scenes_before
             /\ video.outcome.kind = "return" => video.scenes = PyNone
             /\ video.scenes \in {video.scenes_before, PyNone}
    /\ (video.op = "get_scenes" /\ video.after_delete)
          => /\ video.scenes_before = PyNone
             /\ video.requests = <<[op |-> "GET index"]>>
    /\ video.deleted => video.scenes = PyNone

\* C21 witness: the delete request of a video that had scenes S1 raised, and
\* the scenes are still S1
C21_Witness ==
    /\ video.op = "delete_scene_index"
    /\ video.pc = "done"
    /\ video.outcome.kind = "raise"
    /\ video.scenes_before = ScenesList("S1")
    /\ video.scenes = ScenesList("S1")

\* C22: insert_video(video, timestamp) sends one compile request of three
\* shots in the order (self.id, 0, t), (video.id, 0, video.length),
\* (self.id, t, self.length) with t = min(timestamp, self.length), and for
\* every timestamp the two segments of the host video satisfy
\* 0 <= start <= end <= self.length, meet at t and cover [0, self.length].
C22_InsertSegments ==
    video.op = "insert_video" =>
        LET t == IF video.timestamp < video.length
                 THEN video.timestamp ELSE video.length
            shots == video.requests[1].shots
        IN
        /\ Len(video.requests) = 1
        /\ shots = <<[video_id |-> "v1", start |-> 0, end |-> t],
                     [video_id |-> video.other.id, start |-> 0,
                      end |-> video.other.length],
                     [video_id |-> "v1", start |-> t, end |-> video.length]>>
        /\ \A i \in {1, 3} :
              /\ 0 <= shots[i].start
              /\ shots[i].start <= shots[i].end
              /\ shots[i].end <= video.length
        /\ shots[1].end = shots[3].start
        /\ shots[1].start = 0
        /\ shots[3].end = video.length
====
